---- MODULE Spec2Model ----
(***************************************************************************)
(* A model of the kernel profiler of tfjs-core (src/tfjs-core/src/         *)
(* profiler.ts: Profiler.profileKernel, checkComputationForErrors,         *)
(* ProfilerException, Logger) and of the benchmark helper `time` of the    *)
(* WebGPU ops benchmarks (src/tfjs-react-native/integration_rn59/App.tsx,  *)
(* lines 194-243).                                                         *)
(* The Logger's formatting and checkComputationForErrors are also modelled *)
(* on their own, as functions of their arguments.                          *)
(*                                                                         *)
(* JavaScript is single threaded and runs every function to completion:    *)
(* a promise reaction (.then callback, the continuation of an await) runs  *)
(* only when no synchronous code is on the stack.  The model keeps that:   *)
(* the steps of one synchronous function are separate actions, and the     *)
(* reactions are actions guarded by StackEmpty.                            *)
(***************************************************************************)
EXTENDS Integers, Sequences, FiniteSets, TLC

\* ------------------------------------------------------------------ bounds
\* profileKernel invocations issued by the caller.
MaxCalls == 2
\* Tensors the kernels produce in total (outputs of all invocations).
MaxTensors == 2
\* Longest value array handed to checkComputationForErrors on its own.
MaxLen == 3
\* Largest trial count and repetition count given to the benchmark `time`.
MaxTrials == 2
MaxReps == 2
\* Last reading of the clock tf.util.now() during a benchmark.
MaxClock == 2
\* Most inputs of a kernel whose profile the Logger prints on its own.
MaxInputs == 2

VARIABLES
  \* --- Profiler (profiler.ts) ---
  firstKind,      \* which kind of tensor the first kernel output is
  backendTimer,   \* the BackendTimer given to the constructor
  pc,             \* per invocation: position in profileKernel
  args,           \* per invocation: [name, inputs] it was called with
  fReturn,        \* per invocation: the object f returned
  fCalls,         \* per invocation: how many times f was executed
  result,         \* per invocation: the local `result`
  results,        \* per invocation: the local `results` (ids of the tensors)
  idx,            \* per invocation: position of forEach in `results`
  returned,       \* per invocation: the object the caller received
  timer,          \* per invocation: state of the promise `timer`
  nextTensor,     \* id of the next tensor a kernel creates
  dataState,      \* per tensor: state of the promise r.data() returned
  stage,          \* per tensor: progress of the reactions registered for it
  checkCalls,     \* per tensor: calls of checkComputationForErrors
  consoleError,   \* per tensor: messages console.error received for it
  logCalls,       \* per tensor: argument lists logKernelProfile received
  tensorState,    \* per tensor: its values, dtype, shape, whether disposed
  \* --- checkComputationForErrors on its own ---
  chkIn,          \* the arguments (vals, dtype, name)
  chkOut,         \* the outcome of the call, NoOutcome before it
  \* --- the benchmark function time (App.tsx, lines 194-243) ---
  params,         \* doRep, endTrial, disposeAfterEachTrial, trials, reps
  tpc,            \* position in time / trial
  inWarmup,       \* whether the running trial is the warm-up of line 226
  t,              \* the loop variable t of line 229
  rep,            \* the loop variable r of line 210
  lastResult,     \* the local `result` of trial
  toDispose,      \* the tensors owned for disposal
  times,          \* the list of durations
  start,          \* the local `start` of line 230
  now,            \* the clock tf.util.now()
  awaited,        \* the promise awaited at the end of the trial
  nextOut,        \* id of the next tensor doRep creates
  disposed,       \* the tensors on which dispose() was called
  report,         \* what lines 238-242 print
  trialCalls,     \* history: the calls of trial(), "warmup" or "timed"
  starts,         \* history: number of start timestamps taken
  awaitsResolved, \* history: number of end-of-trial awaits that resolved
  pushedBy,       \* history: the value of t at each times.push
  warmupOut,      \* history: the tensors the warm-up trial produced
  repLog,         \* history: the arguments doRep received in this trial
  hookCalls,      \* history: number of calls of endTrial
  dataCalls,      \* history: the tensors on which trial called data()
  \* --- Logger.logKernelProfile on its own ---
  logIn,          \* the arguments of the call
  logOut          \* what console.log received, NoLine before the call

pvars == <<firstKind, backendTimer, pc, args, fReturn, fCalls, result, results,
           idx, returned, timer, nextTensor, dataState, stage, checkCalls,
           consoleError, logCalls, tensorState>>
cvars == <<chkIn, chkOut>>
tvars == <<params, tpc, inWarmup, t, rep, lastResult, toDispose, times, start,
           now, awaited, nextOut, disposed, report, trialCalls, starts,
           awaitsResolved, pushedBy, warmupOut, repLog, hookCalls, dataCalls>>
lvars == <<logIn, logOut>>
vars == <<pvars, cvars, tvars, lvars>>

\* ------------------------------------------------------------ number values
\* A JavaScript number, as far as this code can tell numbers apart: a finite
\* value, NaN, Infinity or -Infinity.
Fin(n) == [kind |-> "finite", num |-> n]
NaN == [kind |-> "NaN", num |-> 0]
PosInf == [kind |-> "Infinity", num |-> 0]
NegInf == [kind |-> "-Infinity", num |-> 0]
Numbers == {Fin(0), Fin(-1), NaN, PosInf, NegInf}

\* The global isNaN and isFinite of JavaScript.
isNaN(num) == num.kind = "NaN"
isFinite(num) == num.kind = "finite"

\* `${num}` of a template literal: Number::toString.
NumToString(num) ==
  CASE num.kind = "NaN" -> "NaN"
    [] num.kind = "Infinity" -> "Infinity"
    [] num.kind = "-Infinity" -> "-Infinity"
    [] OTHER -> ToString(num.num)

DataTypes == {"float32", "int32", "bool", "complex64"}
KernelNames == {"add", "matMul"}

\* ------------------------------------------------- checkComputationForErrors
\* ProfilerException(msg): console.error(msg); a plain function called
\* without `new`, so the value it yields (and that is thrown) is undefined.
ProfilerException(msg) == [console |-> <<msg>>, value |-> "undefined"]

\* The message of line 78.
ErrorMessage(name, num) ==
  "The result of the '" \o name \o "' is " \o NumToString(num) \o "."

\* The outcome of a call: whether it threw, what it threw, what console.error
\* received, and how many elements of vals it read.
Normal(examined) ==
  [threw |-> FALSE, value |-> "none", console |-> << >>, examined |-> examined]

\* Variant: only NaN is looked for.
IsBadIsNaNOnly(num) == isNaN(num)
\* Test of line 76 on one element.
IsBad(num) == isNaN(num) \/ ~isFinite(num)

\* The loop of lines 74-80, from index i (1-based here).
RECURSIVE CheckLoop(_, _, _)
CheckLoop(vals, name, i) ==
  IF i > Len(vals) THEN Normal(Len(vals))
  ELSE IF IsBad(vals[i])
       THEN LET e == ProfilerException(ErrorMessage(name, vals[i]))
            IN [threw |-> TRUE, value |-> e.value, console |-> e.console,
                examined |-> i]
       ELSE CheckLoop(vals, name, i + 1)

\* Variant: only int32 is skipped.
SkipsDtypeIntOnly(dtype) == dtype = "int32"
\* The guard of line 70.
SkipsDtype(dtype) == dtype # "float32"

checkComputationForErrors(vals, dtype, name) ==
  IF SkipsDtype(dtype) THEN Normal(0) ELSE CheckLoop(vals, name, 1)

\* ------------------------------------------------------------------ tensors
\* The tensors kernels produce: a finite float32 tensor, a float32 tensor
\* holding NaN and Infinity, and an int32 scalar.
TensorKinds ==
  << [dtype |-> "float32", vals |-> <<Fin(0), Fin(-1)>>, shape |-> <<2>>],
     [dtype |-> "float32", vals |-> <<Fin(0), NaN, PosInf>>, shape |-> <<3>>],
     [dtype |-> "int32", vals |-> <<Fin(-1)>>, shape |-> << >>] >>

Calls == 1..MaxCalls
TensorIds == 1..MaxTensors

\* Tensor id: its declared type, the values data() resolves to, its shape.
Tensor(id) == TensorKinds[((id - 1 + firstKind) % Len(TensorKinds)) + 1]

\* Tensor id as the kernel creates it: not disposed.
AsCreated(id) ==
  [dtype |-> Tensor(id).dtype, vals |-> Tensor(id).vals,
   shape |-> Tensor(id).shape, isDisposed |-> FALSE]

\* What callers pass as (name, inputs): inputs is a NamedTensorMap, here the
\* sequence of its entries in iteration order.
KernelArgs ==
  << [name |-> "add",
      inputs |-> << [name |-> "x", shape |-> <<3, 4>>],
                    [name |-> "y", shape |-> << >>] >>],
     [name |-> "matMul", inputs |-> << [name |-> "a", shape |-> <<2>>] >>] >>

\* The caller's c-th invocation: the kernels are issued in turn.
CallArgs(c) == KernelArgs[((c - 1) % Len(KernelArgs)) + 1]

\* JavaScript objects as far as identity matters: a tensor is its id, an
\* array is told apart by who created it.
TensorObj(id) == [obj |-> "Tensor", by |-> "f", elems |-> <<id>>]
ArrayObj(who, ts) == [obj |-> "Array", by |-> who, elems |-> ts]
Undefined == [obj |-> "undefined", by |-> "none", elems |-> << >>]

\* The tensors nextTensor .. nextTensor+n-1, in order.
Fresh(n) == [i \in 1..n |-> nextTensor + i - 1]

\* What a kernel function f can return: one new tensor, or an array of
\* zero or more new tensors.
FReturns ==
  (IF nextTensor <= MaxTensors THEN {TensorObj(nextTensor)} ELSE {})
  \cup {ArrayObj("f", Fresh(n)) : n \in 0..(MaxTensors - nextTensor + 1)}

\* ----------------------------------------------------------------- promises
\* A promise: its state and, once resolved, its value (a placeholder of the
\* value's type until then).
NoVals == << >>
NoTiming == [kernelMs |-> 0, getExtraProfileInfo |-> "null"]
Pending(none) == [state |-> "pending", value |-> none]
Resolved(v) == [state |-> "resolved", value |-> v]
Rejected(none) == [state |-> "rejected", value |-> none]
NoPromise(none) == [state |-> "none", value |-> none]

\* The backends' timers: one whose timing has no getExtraProfileInfo, one
\* whose timing has it.
BackendTimers == {"plain", "withExtraInfo"}

\* The value the BackendTimer resolves its promise with.
Timing ==
  [kernelMs |-> 5,
   getExtraProfileInfo |-> IF backendTimer = "plain" THEN "null" ELSE "info"]

\* A promise as its creator hands it out: possibly settled already.
NewTimerPromises ==
  {Pending(NoTiming), Rejected(NoTiming), Resolved(Timing)}
NewDataPromises(id) ==
  {Pending(NoVals), Rejected(NoVals), Resolved(tensorState[id].vals)}

\* Variant: reactions are run at once, also under synchronous code.
StackEmptyAlways == TRUE
\* No synchronous code is running: every invocation of profileKernel has
\* either not begun or has returned (or thrown) to its caller.
StackEmpty == \A c \in Calls : pc[c] \in {"idle", "returned", "threw"}

\* --------------------------------------------------- Profiler.profileKernel
\* holdResultWrapperFn (lines 34-36): result = f(), where f returns ret and
\* creates the tensors of ret.
holdResultWrapperFn(c, ret) ==
  /\ fCalls' = [fCalls EXCEPT ![c] = @ + 1]
  /\ fReturn' = [fReturn EXCEPT ![c] = ret]
  /\ result' = [result EXCEPT ![c] = ret]
  /\ nextTensor' = nextTensor + (IF ret.obj = "Tensor" THEN 1 ELSE Len(ret.elems))

\* this.backendTimer.time(work) (line 37): the timer runs `work` once,
\* synchronously, and returns the promise p of the timing.
BackendTimerTime(c, ret, p) ==
  /\ holdResultWrapperFn(c, ret)
  /\ timer' = [timer EXCEPT ![c] = p]

\* Lines 39-40: Array.isArray(result) ? result : [result].
Normalize(res) ==
  IF res.obj = "Array" THEN res ELSE ArrayObj("profileKernel", res.elems)

\* Lines 31-40: the caller calls profileKernel(name, inputs, f); the body runs
\* up to the forEach.  Invocations are numbered in the order they are issued.
ProfileKernel(c, a, ret, p) ==
  /\ StackEmpty
  /\ pc[c] = "idle"
  /\ \A d \in Calls : d < c => pc[d] # "idle"
  /\ BackendTimerTime(c, ret, p)
  /\ args' = [args EXCEPT ![c] = a]
  /\ results' = [results EXCEPT ![c] = Normalize(ret)]
  /\ idx' = [idx EXCEPT ![c] = 1]
  /\ pc' = [pc EXCEPT ![c] = "forEach"]
  /\ UNCHANGED <<firstKind, backendTimer, tensorState, returned, dataState, stage, checkCalls,
                 consoleError, logCalls>>

\* Variant: the values are read and validated synchronously.
ForEachBodySync(c, r, p) ==
  LET chk == checkComputationForErrors(Tensor(r).vals, Tensor(r).dtype,
                                       args[c].name)
  IN /\ dataState' = [dataState EXCEPT ![r] = Resolved(Tensor(r).vals)]
     /\ checkCalls' = [checkCalls EXCEPT ![r] = @ + 1]
     /\ consoleError' = [consoleError EXCEPT ![r] = @ \o chk.console]
     /\ stage' = [stage EXCEPT ![r] = IF chk.threw THEN "threw" ELSE "waitTimer"]
     /\ IF chk.threw
        THEN pc' = [pc EXCEPT ![c] = "threw"] /\ UNCHANGED idx
        ELSE idx' = [idx EXCEPT ![c] = @ + 1] /\ UNCHANGED pc
\* Variant: the timing reaction is registered without waiting for the values.
ForEachBodySkipsData(c, r, p) ==
  /\ dataState' = [dataState EXCEPT ![r] = p]
  /\ stage' = [stage EXCEPT ![r] = "waitTimer"]
  /\ idx' = [idx EXCEPT ![c] = @ + 1]
  /\ UNCHANGED <<pc, checkCalls, consoleError>>
\* The body of the forEach for tensor r (lines 41-57): r.data() is called and
\* a reaction is registered on the promise it returns; nothing else runs.
ForEachBody(c, r, p) ==
  /\ dataState' = [dataState EXCEPT ![r] = p]
  /\ stage' = [stage EXCEPT ![r] = "waitData"]
  /\ idx' = [idx EXCEPT ![c] = @ + 1]
  /\ UNCHANGED <<pc, checkCalls, consoleError>>

ForEach(c) ==
  /\ pc[c] = "forEach"
  /\ idx[c] <= Len(results[c].elems)
  /\ LET r == results[c].elems[idx[c]]
     IN \E p \in NewDataPromises(r) : ForEachBody(c, r, p)
  /\ UNCHANGED <<firstKind, backendTimer, tensorState, args, fReturn, fCalls, result, results, returned,
                 timer, nextTensor, logCalls>>

\* Variant: the normalized array is handed back.
ReturnValueNormalized(c) == results[c]
\* Line 59: what profileKernel hands back.
ReturnValue(c) == result[c]

Return(c) ==
  /\ pc[c] = "forEach"
  /\ idx[c] > Len(results[c].elems)
  /\ returned' = [returned EXCEPT ![c] = ReturnValue(c)]
  /\ pc' = [pc EXCEPT ![c] = "returned"]
  /\ UNCHANGED <<firstKind, backendTimer, tensorState, args, fReturn, fCalls, result, results, idx, timer,
                 nextTensor, dataState, stage, checkCalls, consoleError,
                 logCalls>>

\* ------------------------------------------------- the promises settle
\* The backend settles the promise of r.data(): with the values, or by
\* rejecting.
DataSettles(r) ==
  /\ StackEmpty
  /\ dataState[r].state = "pending"
  /\ dataState' \in {[dataState EXCEPT ![r] = Resolved(tensorState[r].vals)],
                     [dataState EXCEPT ![r] = Rejected(NoVals)]}
  /\ UNCHANGED <<firstKind, backendTimer, tensorState, pc, args, fReturn, fCalls, result, results, idx,
                 returned, timer, nextTensor, stage, checkCalls, consoleError,
                 logCalls>>

\* The backend settles the promise of the timing.
TimerSettles(c) ==
  /\ StackEmpty
  /\ timer[c].state = "pending"
  /\ \E p \in NewTimerPromises \ {Pending(NoTiming)} : timer' = [timer EXCEPT ![c] = p]
  /\ UNCHANGED <<firstKind, backendTimer, tensorState, pc, args, fReturn, fCalls, result, results, idx,
                 returned, nextTensor, dataState, stage, checkCalls,
                 consoleError, logCalls>>

\* The invocation that produced tensor r.
Owner(r) == CHOOSE c \in Calls : \E i \in DOMAIN results[c].elems :
                                    results[c].elems[i] = r

\* Variant: the outcome of the check is ignored.
GoesOnAlways(chk) == TRUE
\* Whether the reaction of lines 44-56 goes on to line 47 after the check.
GoesOn(chk) == ~chk.threw

\* Variant: the reactions are chained, each output waiting for the
\* validation of the outputs before it.
DataThenReadyInOrder(r) ==
  /\ stage[r] = "waitData"
  /\ dataState[r].state = "resolved"
  /\ \A r2 \in TensorIds : r2 < r => stage[r2] \notin {"waitData", "threw"}
\* When the reaction of lines 44-56 may run: r.data() has resolved.
DataThenReady(r) ==
  stage[r] = "waitData" /\ dataState[r].state = "resolved"

\* Variant: the tensor is disposed once it has been looked at.
InspectAndDispose(r) ==
  tensorState' = [tensorState EXCEPT ![r].isDisposed = TRUE]
\* Lines 44-54: the reactions read r.dtype, the values and, in the logger,
\* r.rank, r.size and r.shape; they assign nothing and dispose nothing.
Inspect(r) == UNCHANGED tensorState

\* The reaction of lines 44-56, run with the values of r: validation, then
\* the registration of a reaction on `timer`.  When validation throws, the
\* reaction ends there (the promise .then returned is rejected, and nobody
\* handles it).
DataThen(r) ==
  /\ StackEmpty
  /\ DataThenReady(r)
  /\ Inspect(r)
  /\ LET vals == dataState[r].value
         chk == checkComputationForErrors(vals, tensorState[r].dtype,
                                          args[Owner(r)].name)
     IN /\ checkCalls' = [checkCalls EXCEPT ![r] = @ + 1]
        /\ consoleError' = [consoleError EXCEPT ![r] = @ \o chk.console]
        /\ stage' = [stage EXCEPT
                       ![r] = IF GoesOn(chk) THEN "waitTimer" ELSE "threw"]
  /\ UNCHANGED <<firstKind, backendTimer, pc, args, fReturn, fCalls, result, results, idx,
                 returned, timer, nextTensor, dataState, logCalls>>

\* Lines 48-51.
ExtraInfo(timing) ==
  IF timing.getExtraProfileInfo # "null" THEN timing.getExtraProfileInfo
  ELSE ""

\* The arguments of this.logger.logKernelProfile (lines 53-54).
LogArgs(r, vals, timing) ==
  [name |-> args[Owner(r)].name, result |-> r, vals |-> vals,
   timeMs |-> timing.kernelMs, inputs |-> args[Owner(r)].inputs,
   extraInfo |-> ExtraInfo(timing)]

\* Variant: the reaction does not wait for the timing.
TimerThenReadyEarly(r) == stage[r] = "waitTimer"
\* When the reaction of lines 47-55 may run.
TimerThenReady(r) ==
  stage[r] = "waitTimer" /\ timer[Owner(r)].state = "resolved"

\* The reaction of lines 47-55, run with the timing: the logger is called.
\* The default Logger returns normally; a logger given to the constructor
\* may throw, which rejects a promise nobody handles.
TimerThen(r) ==
  /\ StackEmpty
  /\ TimerThenReady(r)
  /\ logCalls' = [logCalls EXCEPT
       ![r] = Append(@, LogArgs(r, dataState[r].value, timer[Owner(r)].value))]
  /\ \E outcome \in {"logged", "loggerThrew"} :
        stage' = [stage EXCEPT ![r] = outcome]
  /\ Inspect(r)
  /\ UNCHANGED <<firstKind, backendTimer, pc, args, fReturn, fCalls, result, results, idx,
                 returned, timer, nextTensor, dataState, checkCalls,
                 consoleError>>

NoArgs == [name |-> "", inputs |-> << >>]

InitProfiler ==
  /\ firstKind \in 0..(Len(TensorKinds) - 1)
  /\ backendTimer \in BackendTimers
  /\ pc = [c \in Calls |-> "idle"]
  /\ args = [c \in Calls |-> NoArgs]
  /\ fReturn = [c \in Calls |-> Undefined]
  /\ fCalls = [c \in Calls |-> 0]
  /\ result = [c \in Calls |-> Undefined]
  /\ results = [c \in Calls |-> Undefined]
  /\ idx = [c \in Calls |-> 0]
  /\ returned = [c \in Calls |-> Undefined]
  /\ timer = [c \in Calls |-> NoPromise(NoTiming)]
  /\ nextTensor = 1
  /\ dataState = [r \in TensorIds |-> NoPromise(NoVals)]
  /\ stage = [r \in TensorIds |-> "none"]
  /\ tensorState = [r \in TensorIds |-> AsCreated(r)]
  /\ checkCalls = [r \in TensorIds |-> 0]
  /\ consoleError = [r \in TensorIds |-> << >>]
  /\ logCalls = [r \in TensorIds |-> << >>]

\* ------------------------------------- checkComputationForErrors on its own
NoOutcome == [threw |-> FALSE, value |-> "not called", console |-> << >>,
              examined |-> 0]

RECURSIVE SeqsUpTo(_, _)
SeqsUpTo(S, n) ==
  IF n = 0 THEN {<< >>}
  ELSE LET shorter == SeqsUpTo(S, n - 1)
       IN shorter \cup {Append(s, x) : s \in shorter, x \in S}

InitCheck ==
  /\ chkIn \in [vals : SeqsUpTo(Numbers, MaxLen), dtype : DataTypes,
                name : KernelNames]
  /\ chkOut = NoOutcome

\* A call checkComputationForErrors(vals, dtype, name).
CheckCall ==
  /\ chkOut = NoOutcome
  /\ chkOut' = checkComputationForErrors(chkIn.vals, chkIn.dtype, chkIn.name)
  /\ UNCHANGED chkIn

IdleCheck ==
  /\ chkIn = [vals |-> << >>, dtype |-> "float32", name |-> "add"]
  /\ chkOut = NoOutcome

\* ------------------------------------------------ the benchmark function time
\* What doRep returns at each repetition: one new tensor, an empty array
\* (the argMax benchmark, lines 255-258), or an array of two new tensors.
Workloads ==
  { [isArray |-> FALSE, n |-> 1], [isArray |-> TRUE, n |-> 0],
    [isArray |-> TRUE, n |-> 2] }

\* The arguments of a call of time.
Params ==
  [doRep : Workloads, endTrial : {"null", "hook"},
   disposeAfterEachTrial : BOOLEAN, trials : 0..MaxTrials, reps : 0..MaxReps]

\* The tensors nextOut .. nextOut+n-1, in order.
NewTensors(n) == [i \in 1..n |-> nextOut + i - 1]

\* doRep(r): the result object.
DoRepResult ==
  IF params.doRep.isArray THEN ArrayObj("doRep", NewTensors(params.doRep.n))
  ELSE [obj |-> "Tensor", by |-> "doRep", elems |-> NewTensors(1)]

SeqToSet(q) == {q[i] : i \in DOMAIN q}

\* Line 213: Array.isArray(result) ? result : [result].
AsArray(res) == res.elems

\* Lines 226 and 231: trial() is called and runs up to its loop.
BeginTrial(kind) ==
  /\ rep' = 0
  /\ lastResult' = Undefined
  /\ trialCalls' = Append(trialCalls, kind)
  /\ repLog' = << >>
  /\ tpc' = "rep"

\* Lines 194-226: time is called; the warm-up trial begins.
Time ==
  /\ tpc = "idle"
  /\ times' = << >>
  /\ toDispose' = << >>
  /\ inWarmup' = TRUE
  /\ BeginTrial("warmup")
  /\ UNCHANGED <<hookCalls, dataCalls>>
  /\ UNCHANGED <<awaitsResolved, params, t, start, now, awaited, nextOut, disposed, report,
                 starts, pushedBy, warmupOut>>

\* Variant: the loop of line 210 runs once more.
RepGoesOnInclusive == rep <= params.reps
\* Line 210: whether another repetition runs.
RepGoesOn == rep < params.reps

\* Lines 210-214: one repetition, doRep(r).
Rep ==
  /\ tpc = "rep"
  /\ RepGoesOn
  /\ repLog' = Append(repLog, rep)
  /\ UNCHANGED <<hookCalls, dataCalls>>
  /\ lastResult' = DoRepResult
  /\ toDispose' = toDispose \o AsArray(DoRepResult)
  /\ nextOut' = nextOut + params.doRep.n
  /\ warmupOut' = IF inWarmup THEN warmupOut \cup SeqToSet(AsArray(DoRepResult))
                  ELSE warmupOut
  /\ rep' = rep + 1
  /\ UNCHANGED <<awaitsResolved, params, tpc, inWarmup, t, times, start, now, awaited,
                 disposed, report, trialCalls, starts, pushedBy>>

\* Line 219: (Array.isArray(result) ? result[0] : result) is undefined when
\* no repetition ran or the last result is an empty array; .data() on it is
\* a TypeError.
\* Variant: the missing tensor is taken for one whose data is awaited.
ProxyIsUndefinedNever == FALSE
ProxyIsUndefined ==
  lastResult.obj = "undefined" \/ (lastResult.obj = "Array" /\ lastResult.elems = << >>)

\* Variant: the last tensor of the last result.
ProxyTensorLast ==
  IF AsArray(lastResult) = << >> THEN 0
  ELSE lastResult.elems[Len(lastResult.elems)]
\* Line 219: Array.isArray(result) ? result[0] : result, 0 for undefined.
ProxyTensor ==
  IF AsArray(lastResult) = << >> THEN 0 ELSE lastResult.elems[1]

\* Lines 216-220: after the loop, the hook is called, or data() of the first
\* tensor of the last result, and the promise is awaited.
EndOfTrial ==
  /\ tpc = "rep"
  /\ ~RepGoesOn
  /\ IF params.endTrial # "null"
     THEN /\ awaited' = [on |-> "endTrial", tensor |-> 0, state |-> "pending"]
          /\ hookCalls' = hookCalls + 1
          /\ dataCalls' = dataCalls
          /\ tpc' = "await"
     ELSE IF ProxyIsUndefined
          THEN /\ awaited' = [on |-> "none", tensor |-> 0, state |-> "threw"]
               /\ UNCHANGED <<hookCalls, dataCalls>>
               /\ tpc' = "failed"
          ELSE /\ awaited' = [on |-> "data", tensor |-> ProxyTensor,
                              state |-> "pending"]
               /\ dataCalls' = Append(dataCalls, ProxyTensor)
               /\ hookCalls' = hookCalls
               /\ tpc' = "await"
  /\ UNCHANGED repLog
  /\ UNCHANGED <<awaitsResolved, params, inWarmup, t, rep, lastResult, toDispose, times, start,
                 now, nextOut, disposed, report, trialCalls, starts, pushedBy,
                 warmupOut>>

\* The awaited promise settles.
AwaitSettles ==
  /\ UNCHANGED <<repLog, hookCalls, dataCalls>>
  /\ tpc = "await"
  /\ awaited.state = "pending"
  /\ \E st \in {"resolved", "rejected"} : /\ awaited' = [awaited EXCEPT !.state = st]
        /\ awaitsResolved' = awaitsResolved + (IF st = "resolved" THEN 1 ELSE 0)
  /\ UNCHANGED <<params, tpc, inWarmup, t, rep, lastResult, toDispose, times,
                 start, now, nextOut, disposed, report, trialCalls, starts,
                 pushedBy, warmupOut>>

\* The awaited promise was rejected: trial throws, and so does time.
TrialFails ==
  /\ UNCHANGED <<repLog, hookCalls, dataCalls>>
  /\ tpc = "await"
  /\ awaited.state = "rejected"
  /\ tpc' = "failed"
  /\ UNCHANGED <<awaitsResolved, params, inWarmup, t, rep, lastResult, toDispose, times, start,
                 now, awaited, nextOut, disposed, report, trialCalls, starts,
                 pushedBy, warmupOut>>

\* Variant: the trial is taken to be over while its promise is pending.
TrialOverUnawaited == awaited.state \in {"pending", "resolved"}
\* Lines 216-220: the await of trial() has resolved.
TrialOver == awaited.state = "resolved"

\* dispose() of lines 201-206.
Dispose ==
  /\ disposed' = disposed \cup SeqToSet(toDispose)
  /\ toDispose' = << >>
NoDispose == UNCHANGED <<disposed, toDispose>>

\* Variant: the warm-up disposes only if disposeAfterEachTrial is set.
WarmupDisposeIfAsked ==
  IF params.disposeAfterEachTrial THEN Dispose ELSE NoDispose
\* Line 227, after the warm-up.
WarmupDispose == Dispose

\* Lines 226-229: the warm-up trial is over; its outputs are disposed and
\* the timed loop is entered.
AfterWarmup ==
  /\ UNCHANGED <<repLog, hookCalls, dataCalls>>
  /\ tpc = "await"
  /\ TrialOver
  /\ inWarmup
  /\ WarmupDispose
  /\ t' = 0
  /\ inWarmup' = FALSE
  /\ tpc' = "loopHead"
  /\ UNCHANGED <<awaitsResolved, params, rep, lastResult, times, start, now, awaited, nextOut,
                 report, trialCalls, starts, pushedBy, warmupOut>>

\* Variant: a timed trial never disposes.
TrialDisposeNever == NoDispose
\* Variant: a timed trial always disposes.
TrialDisposeAlways == Dispose
\* Lines 233-235: dispose() after a timed trial, if asked.
TrialDispose ==
  IF params.disposeAfterEachTrial THEN Dispose ELSE NoDispose

\* Variant: the loop runs once more.
LoopGoesOnInclusive == t <= params.trials
\* Line 229: whether another timed trial runs.
LoopGoesOn == t < params.trials

\* Lines 229-231: the start timestamp is taken and a timed trial begins.
StartTrial ==
  /\ tpc = "loopHead"
  /\ LoopGoesOn
  /\ start' = now
  /\ starts' = starts + 1
  /\ BeginTrial("timed")
  /\ UNCHANGED <<hookCalls, dataCalls>>
  /\ UNCHANGED <<awaitsResolved, params, inWarmup, t, toDispose, times, now, awaited, nextOut,
                 disposed, report, pushedBy, warmupOut>>

\* Lines 232-236: the timed trial is over; the elapsed time is appended and
\* the outputs are disposed if asked.
AfterTrial ==
  /\ UNCHANGED <<repLog, hookCalls, dataCalls>>
  /\ tpc = "await"
  /\ TrialOver
  /\ ~inWarmup
  /\ times' = Append(times, now - start)
  /\ pushedBy' = Append(pushedBy, t)
  /\ TrialDispose
  /\ t' = t + 1
  /\ tpc' = "loopHead"
  /\ UNCHANGED <<awaitsResolved, params, inWarmup, rep, lastResult, start, now, awaited,
                 nextOut, report, trialCalls, starts, warmupOut>>

RECURSIVE SumSeq(_)
SumSeq(q) == IF q = << >> THEN 0 ELSE q[1] + SumSeq(Tail(q))

\* Math.min(...times): Infinity for an empty list.
MathMin(q) ==
  IF q = << >> THEN PosInf
  ELSE Fin(CHOOSE x \in SeqToSet(q) : \A y \in SeqToSet(q) : x <= y)

\* Lines 238-239: mean as the fraction sum/trials (0/0 is NaN), and min.
Aggregate ==
  [mean |-> IF params.trials = 0 THEN [kind |-> "NaN", num |-> 0, den |-> 0]
            ELSE [kind |-> "finite", num |-> SumSeq(times), den |-> params.trials],
   min |-> MathMin(times), printed |-> TRUE]
NoReport ==
  [mean |-> [kind |-> "NaN", num |-> 0, den |-> 0], min |-> PosInf,
   printed |-> FALSE]

\* Lines 238-243: the loop is over; mean and min are computed and printed.
Report ==
  /\ UNCHANGED <<repLog, hookCalls, dataCalls>>
  /\ tpc = "loopHead"
  /\ ~LoopGoesOn
  /\ report' = Aggregate
  /\ tpc' = "done"
  /\ UNCHANGED <<awaitsResolved, params, inWarmup, t, rep, lastResult, toDispose, times, start,
                 now, awaited, nextOut, disposed, trialCalls, starts, pushedBy,
                 warmupOut>>

\* Time passes.
Tick ==
  /\ UNCHANGED <<repLog, hookCalls, dataCalls>>
  /\ tpc \notin {"idle", "done", "failed"}
  /\ now < MaxClock
  /\ now' = now + 1
  /\ UNCHANGED <<awaitsResolved, params, tpc, inWarmup, t, rep, lastResult, toDispose, times,
                 start, awaited, nextOut, disposed, report, trialCalls, starts,
                 pushedBy, warmupOut>>

NoAwait == [on |-> "none", tensor |-> 0, state |-> "none"]

TimeNotCalled ==
  /\ tpc = "idle"
  /\ inWarmup = FALSE
  /\ t = 0
  /\ rep = 0
  /\ lastResult = Undefined
  /\ toDispose = << >>
  /\ times = << >>
  /\ start = 0
  /\ now = 0
  /\ awaited = NoAwait
  /\ nextOut = 1
  /\ disposed = {}
  /\ report = NoReport
  /\ trialCalls = << >>
  /\ starts = 0
  /\ awaitsResolved = 0
  /\ pushedBy = << >>
  /\ warmupOut = {}
  /\ repLog = << >>
  /\ hookCalls = 0
  /\ dataCalls = << >>

InitTime == params \in Params /\ TimeNotCalled

IdleTime ==
  /\ params = [doRep |-> [isArray |-> FALSE, n |-> 1], endTrial |-> "null",
               disposeAfterEachTrial |-> FALSE, trials |-> 0, reps |-> 0]
  /\ TimeNotCalled

\* --------------------------------------------------------------- the Logger
\* ' '.repeat(n).
RECURSIVE Spaces(_)
Spaces(n) == IF n <= 0 THEN "" ELSE " " \o Spaces(n - 1)

\* util.rightPad(a, size): a, filled with spaces up to size characters.
rightPad(a, size) ==
  IF size <= Len(a) THEN a ELSE a \o Spaces(size - Len(a))

\* Array.prototype.toString of a shape: the dimensions joined by ",".
RECURSIVE ShapeToString(_)
ShapeToString(shape) ==
  IF shape = << >> THEN ""
  ELSE IF Len(shape) = 1 THEN ToString(shape[1])
  ELSE ToString(shape[1]) \o "," \o ShapeToString(Tail(shape))

\* The optional parameter extraInfo: given, or omitted (undefined).
Omitted == [given |-> FALSE, text |-> ""]
Given(text) == [given |-> TRUE, text |-> text]

\* `${extraInfo}` of the template literal: ToString(undefined) is the text
\* "undefined".
TemplateString(arg) == IF arg.given THEN arg.text ELSE "undefined"

\* What logKernelProfile reads of a tensor: shape, rank and size.
RECURSIVE SizeFromShape(_)
SizeFromShape(shape) ==
  IF shape = << >> THEN 1 ELSE shape[1] * SizeFromShape(Tail(shape))
TensorInfo(shape) ==
  [shape |-> shape, rank |-> Len(shape), size |-> SizeFromShape(shape)]

\* Variant: the segment of an input without the space that ends it.
InputSegmentTrimmed(name, inputShape) ==
  name \o ": " \o ToString(Len(inputShape)) \o "D "
       \o (IF Len(inputShape) > 0 THEN ShapeToString(inputShape) ELSE "")
\* Lines 95-98: what one input adds to inputShapesDescription.
InputSegment(name, inputShape) ==
  LET inputRank == Len(inputShape)
  IN  name \o ": " \o ToString(inputRank) \o "D "
           \o (IF inputRank > 0 THEN ShapeToString(inputShape) ELSE "") \o " "

\* Lines 92-99: the loop over the inputs, in iteration order.
RECURSIVE InputShapesDescription(_)
InputShapesDescription(inputs) ==
  IF inputs = << >> THEN ""
  ELSE InputSegment(inputs[1].name, inputs[1].shape)
          \o InputShapesDescription(Tail(inputs))

\* Lines 102-105: the style arguments of console.log.
LogStyles ==
  <<"font-weight:bold", "color:red", "color:blue", "color: orange",
    "color: green", "color: steelblue">>

\* Logger.logKernelProfile (lines 85-106): the call of console.log it makes,
\* as the six fields of the line, the line itself and the styles.
logKernelProfile(name, res, vals, timeMs, inputs, extraInfo) ==
  LET time == rightPad(ToString(timeMs) \o "ms", 9)
      paddedName == rightPad(name, 25)
      rank == res.rank
      size == res.size
      shape == rightPad(ShapeToString(res.shape), 14)
      inputShapesDescription == InputShapesDescription(inputs)
      fields == <<paddedName, time, ToString(rank) \o "D " \o shape,
                  ToString(size), inputShapesDescription,
                  TemplateString(extraInfo)>>
  IN  [called |-> TRUE, threw |-> FALSE, fields |-> fields,
       line |-> "%c" \o fields[1] \o "\t%c" \o fields[2] \o "\t%c"
                     \o fields[3] \o "\t%c" \o fields[4] \o "\t%c"
                     \o fields[5] \o "\t%c" \o fields[6],
       styles |-> LogStyles]

\* Before the call: nothing is printed.
NoLine ==
  [called |-> FALSE, threw |-> FALSE, fields |-> << >>, line |-> "",
   styles |-> << >>]

\* The inputs of a kernel: NamedTensorMaps of at most MaxInputs entries with
\* distinct names, as the sequence of their entries in iteration order.
NamedTensors ==
  { [name |-> "x", shape |-> <<3, 4>>], [name |-> "y", shape |-> << >>],
    [name |-> "a", shape |-> <<2>>] }
NamedTensorMaps ==
  UNION { { q \in [1..n -> NamedTensors] :
              \A i, j \in 1..n : i # j => q[i].name # q[j].name }
          : n \in 0..MaxInputs }

\* The extraInfo argument: what profileKernel passes for either kind of
\* timing (lines 48-54), or nothing, as a direct caller may.
LogExtraInfos ==
  { Given(ExtraInfo([kernelMs |-> 5, getExtraProfileInfo |-> g]))
      : g \in {"null", "info"} } \cup {Omitted}

\* The arguments of a call of logKernelProfile.
LogInputs ==
  [name : KernelNames,
   result : {TensorInfo(sh) : sh \in {<< >>, <<2>>, <<3, 4>>}},
   vals : {NoVals},
   timeMs : {5, 12345678},
   inputs : NamedTensorMaps,
   extraInfo : LogExtraInfos]

InitLog == logIn \in LogInputs /\ logOut = NoLine

\* The call of logKernelProfile.
LogCall ==
  /\ logOut = NoLine
  /\ logOut' = logKernelProfile(logIn.name, logIn.result, logIn.vals,
                                logIn.timeMs, logIn.inputs, logIn.extraInfo)
  /\ UNCHANGED logIn

IdleLog ==
  /\ logIn = [name |-> "add", result |-> TensorInfo(<< >>), vals |-> NoVals,
              timeMs |-> 5, inputs |-> << >>, extraInfo |-> Omitted]
  /\ logOut = NoLine

\* ----------------------------------------------------------- specifications
\* The profiler and the code it schedules.
Init == InitProfiler /\ IdleCheck /\ IdleTime /\ IdleLog
Next ==
  \/ \E c \in Calls, p \in NewTimerPromises : \E ret \in FReturns :
        ProfileKernel(c, CallArgs(c), ret, p) /\ UNCHANGED <<cvars, tvars, lvars>>
  \/ \E c \in Calls : ForEach(c) /\ UNCHANGED <<cvars, tvars, lvars>>
  \/ \E c \in Calls : Return(c) /\ UNCHANGED <<cvars, tvars, lvars>>
  \/ \E r \in TensorIds : DataSettles(r) /\ UNCHANGED <<cvars, tvars, lvars>>
  \/ \E c \in Calls : TimerSettles(c) /\ UNCHANGED <<cvars, tvars, lvars>>
  \/ \E r \in TensorIds : DataThen(r) /\ UNCHANGED <<cvars, tvars, lvars>>
  \/ \E r \in TensorIds : TimerThen(r) /\ UNCHANGED <<cvars, tvars, lvars>>
Spec == Init /\ [][Next]_vars

\* checkComputationForErrors as a function of its arguments.
InitChk ==
  /\ InitCheck /\ InitProfiler /\ firstKind = 0 /\ backendTimer = "plain"
  /\ IdleTime /\ IdleLog
NextChk == CheckCall /\ UNCHANGED <<pvars, tvars, lvars>>

\* The benchmark function time.
InitBench ==
  /\ InitTime /\ IdleCheck /\ InitProfiler /\ firstKind = 0
  /\ backendTimer = "plain" /\ IdleLog
NextBench ==
  \/ Time /\ UNCHANGED <<pvars, cvars, lvars>>
  \/ Rep /\ UNCHANGED <<pvars, cvars, lvars>>
  \/ EndOfTrial /\ UNCHANGED <<pvars, cvars, lvars>>
  \/ AwaitSettles /\ UNCHANGED <<pvars, cvars, lvars>>
  \/ TrialFails /\ UNCHANGED <<pvars, cvars, lvars>>
  \/ AfterWarmup /\ UNCHANGED <<pvars, cvars, lvars>>
  \/ StartTrial /\ UNCHANGED <<pvars, cvars, lvars>>
  \/ AfterTrial /\ UNCHANGED <<pvars, cvars, lvars>>
  \/ Report /\ UNCHANGED <<pvars, cvars, lvars>>
  \/ Tick /\ UNCHANGED <<pvars, cvars, lvars>>
SpecTime == InitBench /\ [][NextBench]_vars
SpecCheck == InitChk /\ [][NextChk]_vars

\* Logger.logKernelProfile as a function of its arguments.
InitLogger ==
  /\ InitLog /\ InitProfiler /\ firstKind = 0 /\ backendTimer = "plain"
  /\ IdleCheck /\ IdleTime
NextLog == LogCall /\ UNCHANGED <<pvars, cvars, tvars>>
SpecLog == InitLogger /\ [][NextLog]_vars

\* ------------------------------------------------------------------ claims
\* The tensors invocation c hands to the forEach.
OutputsOf(c) == {results[c].elems[i] : i \in DOMAIN results[c].elems}

\* The tensors some invocation has produced so far.
Produced == UNION {OutputsOf(c) : c \in Calls}

\* Whether the values of r are free of NaN and +/-Infinity, or r is not
\* float32 at all.
PassesValidation(r) ==
  \/ Tensor(r).dtype # "float32"
  \/ \A i \in DOMAIN Tensor(r).vals :
        Tensor(r).vals[i] \notin {NaN, PosInf, NegInf}

\* C1: f is executed exactly once per invocation of profileKernel, and the
\* caller receives the very object f returned (the tensor itself, or the
\* array f built, not a wrapper or a copy), whatever the state of the
\* promises of the values and of the timing.
C1_ReturnsWhatFReturned ==
  \A c \in Calls :
    /\ fCalls[c] = (IF pc[c] = "idle" THEN 0 ELSE 1)
    /\ pc[c] = "returned" => returned[c] = fReturn[c]
    /\ pc[c] # "returned" => returned[c] = Undefined

\* C1 witness: an invocation has returned the single tensor f returned while
\* the tensor's values and the timing are still pending.
C1_Witness ==
  \E c \in Calls :
    /\ pc[c] = "returned"
    /\ returned[c].obj = "Tensor"
    /\ returned[c] = fReturn[c]
    /\ timer[c].state = "pending"
    /\ \A r \in OutputsOf(c) : dataState[r].state = "pending"

\* C2: in the step in which profileKernel returns, no validation and no
\* logger call has yet happened for any of its outputs, even when the
\* promises are resolved already; and while the invocation runs it can
\* always take its next step: it waits for nothing.
C2_ReturnsBeforeBackgroundWork ==
  /\ [][\A c \in Calls :
          (pc[c] # "returned" /\ pc'[c] = "returned") =>
             \A r \in OutputsOf(c) :
                /\ checkCalls'[r] = 0
                /\ logCalls'[r] = << >>
                /\ consoleError'[r] = << >>]_vars
  /\ [](\A c \in Calls :
          pc[c] = "forEach" => ENABLED (ForEach(c) \/ Return(c)))

\* C2 witness: an invocation has returned; the values of an output and the
\* timing were resolved before it returned and are still not validated.
C2_Witness ==
  \E c \in Calls : \E r \in OutputsOf(c) :
    /\ pc[c] = "returned"
    /\ dataState[r].state = "resolved"
    /\ timer[c].state = "resolved"
    /\ stage[r] = "waitData"
    /\ checkCalls[r] = 0

\* C3: a step that calls the logger for output r starts in a state where
\* r's values are materialized, checkComputationForErrors has run on them
\* and the timing is resolved; the values logged are the materialized ones.
C3_LogAfterDataCheckTiming ==
  [][\A r \in TensorIds :
       Len(logCalls'[r]) > Len(logCalls[r]) =>
          /\ dataState[r].state = "resolved"
          /\ checkCalls[r] >= 1
          /\ timer[Owner(r)].state = "resolved"
          /\ logCalls'[r][Len(logCalls'[r])].vals = Tensor(r).vals
          /\ logCalls'[r][Len(logCalls'[r])].timeMs = Timing.kernelMs]_vars

\* C3 witness: two outputs of one invocation have both been logged.
C3_Witness ==
  \E c \in Calls : \E r1, r2 \in OutputsOf(c) :
    r1 # r2 /\ Len(logCalls[r1]) = 1 /\ Len(logCalls[r2]) = 1

\* C4: an output is logged at most once; as long as the timing is not
\* resolved it is not logged at all, no error is reported for a valid
\* output and the caller is not disturbed; and an output whose values are
\* materialized and valid and whose timing is resolved has been logged
\* exactly once as soon as none of its reactions is left to run.
C4_OneEmissionPerOutput ==
  \A c \in Calls : \A r \in OutputsOf(c) :
    /\ Len(logCalls[r]) <= 1
    /\ timer[c].state # "resolved" =>
          /\ logCalls[r] = << >>
          /\ stage[r] # "loggerThrew"
          /\ PassesValidation(r) => consoleError[r] = << >>
          /\ pc[c] # "threw"
    /\ ( /\ dataState[r].state = "resolved"
         /\ PassesValidation(r)
         /\ timer[c].state = "resolved"
         /\ stage[r] \notin {"none", "waitData", "waitTimer"} )
       => Len(logCalls[r]) = 1

\* C4 witness: one output logged once, and an output of an invocation whose
\* timing is still pending waiting for it, validated and not logged.
C4_Witness ==
  /\ \E r \in Produced : Len(logCalls[r]) = 1 /\ PassesValidation(r)
  /\ \E r \in Produced :
        /\ stage[r] = "waitTimer"
        /\ timer[Owner(r)].state = "pending"
        /\ logCalls[r] = << >>

\* C5 as claimed: once validation has been attempted for an output, passed
\* or failed, its logger call has happened or waits only for the timing.
C5_AsClaimed ==
  \A r \in Produced :
    checkCalls[r] >= 1 => stage[r] \in {"waitTimer", "logged", "loggerThrew"}

\* C5, amended: validation runs before anything else of the reaction; when
\* it fails the reaction ends there, so the output is never logged, whether
\* or not the timing resolves; every logged output passed validation.
C5_FailedValidationPreventsLog ==
  \A r \in Produced :
    /\ (checkCalls[r] >= 1 /\ ~PassesValidation(r)) =>
          /\ stage[r] = "threw"
          /\ logCalls[r] = << >>
          /\ Len(consoleError[r]) = 1
    /\ logCalls[r] # << >> => checkCalls[r] = 1 /\ PassesValidation(r)
    /\ checkCalls[r] <= 1

\* C5 witness: validation of an output failed, the timing is resolved, and
\* the output is not logged.
C5_Witness ==
  \E r \in Produced :
    /\ ~PassesValidation(r)
    /\ checkCalls[r] = 1
    /\ consoleError[r] # << >>
    /\ timer[Owner(r)].state = "resolved"
    /\ logCalls[r] = << >>

\* An output whose background work failed: materialization rejected,
\* validation threw, or the logger threw.
Failed(r) ==
  \/ dataState[r].state = "rejected"
  \/ stage[r] \in {"threw", "loggerThrew"}

\* C6: no failure of the background work reaches the caller: profileKernel
\* never throws, an invocation in progress can always go on to its return,
\* validation and logger failures happen only after the return, and the
\* object the caller received stays the one f returned.
C6_FailuresStayInBackground ==
  \A c \in Calls :
    /\ pc[c] # "threw"
    /\ pc[c] = "forEach" => ENABLED (ForEach(c) \/ Return(c))
    /\ \A r \in OutputsOf(c) :
          /\ stage[r] \in {"threw", "loggerThrew"} => pc[c] = "returned"
          /\ (Failed(r) /\ pc[c] # "forEach") =>
                pc[c] = "returned" /\ returned[c] = fReturn[c]

\* C6 witness: of the outputs the caller has received, the validation of one
\* failed and the logger threw on another.
C6_Witness ==
  \E r1, r2 \in Produced :
    /\ stage[r1] = "threw"
    /\ stage[r2] = "loggerThrew"
    /\ pc[Owner(r1)] = "returned" /\ pc[Owner(r2)] = "returned"
    /\ returned[Owner(r1)] = fReturn[Owner(r1)]

\* C7: for a declared type other than float32 the call returns normally,
\* reports nothing and reads no element, whatever vals holds.
C7_NonFloatNeverReported ==
  (chkOut # NoOutcome /\ chkIn.dtype # "float32") =>
     /\ ~chkOut.threw
     /\ chkOut.console = << >>
     /\ chkOut.examined = 0

\* C7 witness: a call on a bool array holding NaN has returned normally.
C7_Witness ==
  /\ chkOut # NoOutcome
  /\ chkIn.dtype = "bool"
  /\ \E i \in DOMAIN chkIn.vals : chkIn.vals[i] = NaN
  /\ ~chkOut.threw

\* The indices of vals holding NaN, Infinity or -Infinity.
Offending(vals) == {i \in DOMAIN vals : vals[i] \in {NaN, PosInf, NegInf}}

\* The text the report shows for a non-finite value.
Shown(v) == IF v = NaN THEN "NaN" ELSE IF v = PosInf THEN "Infinity"
            ELSE "-Infinity"

\* C8: for float32 the call reports iff some element is NaN or +/-Infinity;
\* then it throws, console.error receives exactly one message, naming the
\* kernel and the first offending element, and no later element is read;
\* otherwise it returns normally without a report.
C8_FloatReportedIffNonFinite ==
  (chkOut # NoOutcome /\ chkIn.dtype = "float32") =>
     LET bad == Offending(chkIn.vals)
     IN IF bad = {}
        THEN ~chkOut.threw /\ chkOut.console = << >>
        ELSE LET first == CHOOSE i \in bad : \A j \in bad : i <= j
             IN /\ chkOut.threw
                /\ chkOut.console =
                     << "The result of the '" \o chkIn.name \o "' is "
                        \o Shown(chkIn.vals[first]) \o "." >>
                /\ chkOut.examined = first

\* C8 witness: a call on a float32 array whose first offending element is
\* Infinity, followed by NaN, has thrown.
C8_Witness ==
  /\ chkIn.dtype = "float32"
  /\ chkIn.vals = <<Fin(0), PosInf, NaN>>
  /\ chkOut.threw

\* How many entries of q equal x.
Count(q, x) == Cardinality({i \in DOMAIN q : q[i] = x})

\* C9: the warm-up trial appends nothing; the k-th entry of the duration
\* list is appended by timed trial k-1, so that the list has as many entries
\* as timed trials have completed and, when time completes with trials = N,
\* exactly N; mean and min are computed from those N entries alone.
C9_OneDurationPerTimedTrial ==
  /\ (tpc = "idle" \/ inWarmup) => times = << >>
  /\ Len(pushedBy) = Len(times)
  /\ \A i \in DOMAIN pushedBy : pushedBy[i] = i - 1
  /\ (tpc # "idle" /\ ~inWarmup) => Len(times) = t
  /\ Len(times) <= params.trials
  /\ tpc = "done" =>
        /\ Len(times) = params.trials
        /\ report.printed
        /\ params.trials > 0 =>
              /\ report.mean.num = SumSeq(times)
              /\ report.mean.den = Len(times)
              /\ \E i \in DOMAIN times : report.min = Fin(times[i])

\* C9 witness: time has completed with trials = 2 and two durations, after a
\* warm-up during which the clock advanced (the durations sum to less than
\* the time that passed).
C9_Witness ==
  /\ tpc = "done"
  /\ params.trials = 2
  /\ times = <<1, 0>>
  /\ now = 2

\* C10: exactly one trial is a warm-up, the first; a start timestamp is
\* taken only after as many end-of-trial awaits have resolved, so the first
\* one follows the warm-up's await; and once the first timestamp is taken
\* every tensor of the warm-up has been disposed and none is owned any
\* more: the first timed trial starts with an empty owned set, whatever
\* disposeAfterEachTrial is.
C10_WarmupOnceThenDisposed ==
  /\ Count(trialCalls, "warmup") = (IF tpc = "idle" THEN 0 ELSE 1)
  /\ trialCalls # << >> => trialCalls[1] = "warmup"
  /\ starts <= awaitsResolved
  /\ Count(trialCalls, "timed") = starts
  /\ starts >= 1 =>
        /\ warmupOut \subseteq disposed
        /\ warmupOut \cap SeqToSet(toDispose) = {}
  /\ (tpc = "loopHead" /\ t = 0) => toDispose = << >>
  /\ (starts = 1 /\ tpc = "rep" /\ rep = 0) => toDispose = << >>

\* C10 witness: without disposeAfterEachTrial, the first timed trial is
\* about to run its first repetition; the warm-up produced tensors, all of
\* them disposed.
C10_Witness ==
  /\ ~params.disposeAfterEachTrial
  /\ starts = 1 /\ tpc = "rep" /\ rep = 0
  /\ warmupOut # {}
  /\ warmupOut \subseteq disposed
  /\ toDispose = << >>

\* C11 as stated: with disposeAfterEachTrial, the owned set is not empty
\* during a timed trial, here once a repetition of it has run, whatever the
\* workload.
C11_AsClaimed ==
  (params.disposeAfterEachTrial /\ ~inWarmup /\ tpc = "await" /\ rep >= 1)
     => toDispose # << >>

\* C11: with disposeAfterEachTrial = true the owned set is empty after each
\* timed trial, that is at the loop head (where the next trial starts or
\* time goes on to return), when the next trial is about to run its first
\* repetition, and when time has returned; during a timed trial it holds
\* exactly the outputs of the repetitions run so far, so it is not empty
\* only when a repetition has run and doRep returns at least one tensor.
C11_EmptyBetweenTimedTrials ==
  params.disposeAfterEachTrial =>
     /\ tpc \in {"loopHead", "done"} => toDispose = << >>
     /\ (tpc = "rep" /\ ~inWarmup /\ rep = 0) => toDispose = << >>
     /\ (tpc \in {"rep", "await"} /\ ~inWarmup) =>
           /\ Len(toDispose) = rep * params.doRep.n
           /\ toDispose # << >> <=> (rep >= 1 /\ params.doRep.n >= 1)

\* C11 witness: with disposeAfterEachTrial, the second timed trial is about
\* to run its first repetition; the first one produced tensors, which are
\* disposed, and nothing is owned.
C11_Witness ==
  /\ params.disposeAfterEachTrial
  /\ starts = 2 /\ tpc = "rep" /\ rep = 0
  /\ disposed \ warmupOut # {}
  /\ toDispose = << >>

\* The trials whose repetitions are over and whose end-of-trial step has run.
TrialsEnded == Len(trialCalls) - (IF tpc = "rep" THEN 1 ELSE 0)

\* The trials that have completed, the warm-up included.
TrialsCompleted == IF tpc = "idle" \/ inWarmup THEN 0 ELSE 1 + Len(times)

\* C12: after the repetitions of every trial, if endTrial is given it is
\* called once (one call per trial that got that far), it is what the trial
\* awaits, and the harness calls data() on nothing; otherwise the trial
\* calls data() once on the first tensor of the last repetition's result and
\* awaits that.  No trial completes, and no duration is recorded, before
\* the await of that trial has resolved.
C12_OneAwaitPerTrial ==
  /\ params.endTrial # "null" =>
        /\ hookCalls = TrialsEnded
        /\ dataCalls = << >>
        /\ tpc = "await" => awaited.on = "endTrial"
  /\ params.endTrial = "null" =>
        /\ hookCalls = 0
        /\ Len(dataCalls) = TrialsEnded - (IF awaited.state = "threw" THEN 1 ELSE 0)
        /\ tpc = "await" =>
              /\ awaited.on = "data"
              /\ awaited.tensor = nextOut - params.doRep.n
              /\ awaited.tensor \in SeqToSet(toDispose)
              /\ dataCalls[Len(dataCalls)] = awaited.tensor
  /\ TrialsCompleted <= awaitsResolved
  /\ times # << >> => Len(times) < awaitsResolved
  /\ (tpc = "await" /\ awaited.state = "pending") =>
        TrialsCompleted = awaitsResolved

\* C12 witness: without endTrial, a timed trial of two repetitions, each
\* returning an array of two tensors, awaits the data of the first tensor of
\* the second array.
C12_Witness ==
  /\ params.endTrial = "null"
  /\ ~inWarmup /\ tpc = "await" /\ awaited.state = "pending"
  /\ params.doRep.n = 2 /\ rep = 2
  /\ awaited.tensor = nextOut - 2

\* C13 as stated: when the diagnostic text is unavailable, because
\* profileKernel found no getExtraProfileInfo and passed '' or because
\* logKernelProfile was called without extraInfo, the call does not throw
\* and the last field of the line is empty.
C13_AsClaimed ==
  (logOut.called /\ (~logIn.extraInfo.given \/ logIn.extraInfo.text = "")) =>
     /\ ~logOut.threw
     /\ logOut.fields[6] = ""

\* The dimensions of a shape joined by ",", built from the last one.
RECURSIVE DimsJoined(_)
DimsJoined(shape) ==
  IF shape = << >> THEN ""
  ELSE IF Len(shape) = 1 THEN ToString(shape[1])
  ELSE DimsJoined(SubSeq(shape, 1, Len(shape) - 1)) \o ","
          \o ToString(shape[Len(shape)])

\* "<name>: <rank>D <shape> " for one input.
SegmentOf(input) ==
  input.name \o ": " \o ToString(Len(input.shape)) \o "D "
             \o DimsJoined(input.shape) \o " "

\* The segments of the first n inputs, one after the other.
RECURSIVE SegmentsUpTo(_, _)
SegmentsUpTo(q, n) ==
  IF n = 0 THEN "" ELSE SegmentsUpTo(q, n - 1) \o SegmentOf(q[n])

\* C14: the fifth field of the line, the input-shapes description, is the
\* segments "<name>: <rank>D <shape> " of the inputs in iteration order, one
\* after the other with nothing between them but the space that ends each,
\* <shape> being the dimensions joined by "," and empty for rank 0; for the
\* inputs {x: [3,4]} it is "x: 2D 3,4 ", which contains "x: 2D 3,4".
C14_InputShapesDescription ==
  logOut.called =>
     /\ logOut.fields[5] = SegmentsUpTo(logIn.inputs, Len(logIn.inputs))
     /\ logIn.inputs = << >> => logOut.fields[5] = ""
     /\ logIn.inputs = << [name |-> "x", shape |-> <<3, 4>>] >> =>
           logOut.fields[5] = "x: 2D 3,4 "
     /\ logIn.inputs = << [name |-> "y", shape |-> << >>] >> =>
           logOut.fields[5] = "y: 0D  "
     /\ logIn.inputs = << [name |-> "x", shape |-> <<3, 4>>],
                          [name |-> "y", shape |-> << >>] >> =>
           logOut.fields[5] = "x: 2D 3,4 y: 0D  "

\* C14 witness: a profile with the inputs a of shape [2] and x of shape
\* [3,4], in that order, was printed.
C14_Witness ==
  /\ logOut.called
  /\ Len(logIn.inputs) = 2
  /\ logIn.inputs[1].name = "a" /\ logIn.inputs[2].name = "x"
  /\ logOut.fields[5] = "a: 1D 2 x: 2D 3,4 "

\* C15: the reactions of an output depend on no other output.  Whenever no
\* synchronous code runs, an output whose data() has resolved can be
\* validated, and an output that passed validation and whose invocation's
\* timing has resolved can be logged, whatever became of the other outputs
\* of the same or of another invocation (failed validation, data() or
\* timing pending for ever or rejected); so the emissions of two
\* invocations can come in either order.
C15_TasksIndependent ==
  \A r \in TensorIds :
     /\ (StackEmpty /\ stage[r] = "waitData" /\ dataState[r].state = "resolved")
           => ENABLED DataThen(r)
     /\ (/\ StackEmpty
         /\ stage[r] = "waitTimer"
         /\ timer[Owner(r)].state = "resolved")
           => ENABLED TimerThen(r)

\* C15 witness: two invocations were issued, each with one output; the
\* output of the second is logged while the data() of the output of the
\* first is still pending and nothing of it is validated or logged.
C15_Witness ==
  /\ OutputsOf(1) = {1} /\ OutputsOf(2) = {2}
  /\ stage[1] = "waitData" /\ dataState[1].state = "pending"
  /\ checkCalls[1] = 0 /\ logCalls[1] = << >>
  /\ stage[2] = "logged" /\ Len(logCalls[2]) = 1

\* C16: in every trial doRep is called with 0, 1, ..., reps-1 in that
\* order, starting again at 0 in each trial, and exactly reps times before
\* anything is awaited; every tensor it returns, alone or in an array, is
\* appended to toDispose in the order of creation (every tensor created is
\* owned or was disposed, and the tail of toDispose is what this trial
\* created); the end-of-trial await exists only once all repetitions have
\* returned.
C16_RepsInOrder ==
  /\ repLog = [i \in 1..rep |-> i - 1]
  /\ rep <= params.reps
  /\ tpc \notin {"idle", "rep"} => Len(repLog) = params.reps
  /\ awaited.state = "pending" => (tpc = "await" /\ Len(repLog) = params.reps)
  /\ SeqToSet(toDispose) \cup disposed = 1..(nextOut - 1)
  /\ \A i, j \in DOMAIN toDispose : i < j => toDispose[i] < toDispose[j]
  /\ tpc \in {"rep", "await"} =>
        LET k == rep * params.doRep.n
            len == Len(toDispose)
        IN  /\ len >= k
            /\ \A i \in 1..k : toDispose[len - k + i] = nextOut - k + i - 1

\* C16 witness: the second timed trial has called doRep with 0 and then 1,
\* each call returned an array of two tensors, and the trial now awaits.
C16_Witness ==
  /\ starts = 2 /\ tpc = "await"
  /\ repLog = <<0, 1>>
  /\ params.doRep.n = 2
  /\ Len(toDispose) >= 4

\* C17: the steps of a timed trial come in the order of lines 230-235.  A
\* start timestamp is taken when every earlier duration is recorded (and,
\* with disposeAfterEachTrial, the earlier outputs are disposed) and before
\* any repetition; repetitions of a timed trial run between the timestamp
\* and the recording; the await of a timed trial resolves after all its
\* repetitions; a duration is recorded only after that await resolved, as
\* now - start; tensors are disposed only by the warm-up or, if
\* disposeAfterEachTrial is set, in the step that records the duration,
\* never while a timestamp is taken and its duration is not recorded.
C17_TimedTrialOrder ==
  [][ /\ starts' # starts =>
            /\ Len(times) = starts
            /\ start' = now
            /\ rep' = 0 /\ repLog' = << >>
            /\ params.disposeAfterEachTrial => toDispose = << >>
      /\ (rep' = rep + 1 /\ ~inWarmup) => starts = Len(times) + 1
      /\ (awaitsResolved' # awaitsResolved /\ ~inWarmup) =>
            /\ Len(repLog) = params.reps
            /\ starts = Len(times) + 1
      /\ times' # times =>
            /\ awaited.state = "resolved"
            /\ awaitsResolved = Len(times) + 2
            /\ starts = Len(times) + 1
            /\ times' = Append(times, now - start)
      /\ (disposed' # disposed \/ Len(toDispose') < Len(toDispose)) =>
            \/ inWarmup
            \/ params.disposeAfterEachTrial /\ Len(times') = Len(times) + 1
      /\ (starts = Len(times) + 1 /\ starts' = Len(times') + 1) =>
            /\ disposed' = disposed
            /\ Len(toDispose') >= Len(toDispose)
    ]_vars

\* C17 witness: with disposeAfterEachTrial, the await of the second timed
\* trial has resolved; its tensors are still owned and its duration is not
\* yet recorded, while the first trial's duration is and its tensors are
\* disposed.
C17_Witness ==
  /\ params.disposeAfterEachTrial
  /\ starts = 2 /\ Len(times) = 1
  /\ tpc = "await" /\ awaited.state = "resolved"
  /\ toDispose # << >>
  /\ disposed \ warmupOut # {}

\* C18: the profiler only reads.  Every tensor keeps the values, dtype and
\* shape it was created with and is not disposed, and the (name, inputs) of
\* every invocation are what the caller passed, after any number of
\* invocations, validations and emissions.
C18_ProfilerOnlyReads ==
  /\ \A r \in TensorIds : tensorState[r] = AsCreated(r)
  /\ \A c \in Calls : args[c] \in {NoArgs, CallArgs(c)}
  /\ \A r \in TensorIds : \A i \in DOMAIN logCalls[r] :
        /\ logCalls[r][i].vals = AsCreated(r).vals
        /\ logCalls[r][i].inputs = CallArgs(Owner(r)).inputs

\* C18 witness: one output was validated and logged, another failed
\* validation; both are as they were created.
C18_Witness ==
  /\ stage[1] = "logged" /\ stage[2] = "threw"
  /\ checkCalls[1] = 1 /\ checkCalls[2] = 1
  /\ \A r \in TensorIds : tensorState[r] = AsCreated(r)
  /\ ~tensorState[1].isDisposed /\ ~tensorState[2].isDisposed

\* C19: with disposeAfterEachTrial = false only tensors of the warm-up are
\* ever disposed; from the first timed trial on toDispose holds every
\* tensor the timed trials created, reps * n per completed trial (n the
\* number of tensors doRep returns), so it only grows, and when time has
\* completed it holds trials * reps * n tensors, none of them disposed.
C19_NoDisposeKeepsTimedOutputs ==
  ~params.disposeAfterEachTrial =>
     /\ disposed \subseteq warmupOut
     /\ (tpc # "idle" /\ ~inWarmup) =>
           /\ disposed = warmupOut
           /\ SeqToSet(toDispose) \cap disposed = {}
           /\ SeqToSet(toDispose) = (1..(nextOut - 1)) \ warmupOut
     /\ (~inWarmup /\ tpc \in {"loopHead", "done"}) =>
           Len(toDispose) = t * params.reps * params.doRep.n
     /\ (~inWarmup /\ tpc \in {"rep", "await"}) =>
           Len(toDispose) = (t * params.reps + rep) * params.doRep.n
     /\ tpc = "done" =>
           Len(toDispose) = params.trials * params.reps * params.doRep.n

\* C19 witness: time has completed two timed trials of two repetitions of
\* a workload returning two tensors, without disposeAfterEachTrial: eight
\* tensors are owned, and the four of the warm-up are disposed.
C19_Witness ==
  /\ ~params.disposeAfterEachTrial
  /\ tpc = "done"
  /\ params.trials = 2 /\ params.reps = 2 /\ params.doRep.n = 2
  /\ Len(toDispose) = 8
  /\ Cardinality(disposed) = 4

\* C20: without endTrial, when doRep returns an empty array or reps = 0,
\* the expression of line 219 is undefined, calling data() on it throws and
\* time fails in the warm-up: no timed trial is called, no start timestamp
\* is taken, no duration is recorded, nothing is printed, no data() was
\* requested and dispose() was not called.
C20_MissingProxyFailsWarmup ==
  (/\ params.endTrial = "null"
   /\ params.reps = 0 \/ (params.doRep.isArray /\ params.doRep.n = 0)) =>
     /\ tpc \in {"idle", "rep", "failed"}
     /\ tpc # "idle" => (inWarmup /\ trialCalls = <<"warmup">>)
     /\ tpc = "failed" => awaited.state = "threw"
     /\ starts = 0
     /\ times = << >>
     /\ ~report.printed
     /\ dataCalls = << >>
     /\ disposed = {}
     /\ SeqToSet(toDispose) = 1..(nextOut - 1)

\* C20 witness: without endTrial, the warm-up ran two repetitions that each
\* returned an empty array, and time has failed.
C20_Witness ==
  /\ params.endTrial = "null"
  /\ params.doRep.isArray /\ params.doRep.n = 0
  /\ params.reps = 2 /\ Len(repLog) = 2
  /\ tpc = "failed" /\ awaited.state = "threw"

====
